---- MODULE Spec2Model ----
(***************************************************************************)
(* A model of examples/transformer.py: scaled dot-product attention with   *)
(* causal masking, multi-head folding, the encoder/decoder stacks and the  *)
(* control flow of Transformer.forward.                                    *)
(*                                                                         *)
(* Three specifications share the module:                                  *)
(*   SpecAttention   Attention.forward on concrete rank-3 tensors, run on  *)
(*                   a base key/value pair and on a changed pair;          *)
(*   SpecMultiHead   MultiHead construction and forward on tensor sizes;   *)
(*   Spec            Transformer construction and Transformer.forward on   *)
(*                   abstract tensors (size, per-position dependencies,    *)
(*                   the chain of layers applied).                         *)
(***************************************************************************)
EXTENDS Integers, Sequences, FiniteSets, TLC

VARIABLES
    \* ---- SpecAttention: one Attention module and its operands
    attention,      \* the module's fields: causal, d_key (scale = sqrt(d_key)), training
    query, key, value,      \* operands of the base call
    key_alt, value_alt,     \* key and value after a change of some entries
    keep,           \* the elements dropout keeps in this forward pass
    attn_out, attn_out_alt, \* results of forward on the base and changed operands
    apc,            \* "idle" | "ready" | "changed" | "done"
    \* ---- SpecMultiHead: one MultiHead module and one call of it
    multihead,      \* the module, None before construction
    built_by,       \* the constructor that built it
    mh_inputs,      \* <<query, key, value>> passed to forward
    mh_attn_args,   \* <<query, key, value>> as received by self.attention
    mh_outputs,     \* the attention output with heads unfolded, before wo
    mh_result,      \* what forward returned (Error: it raised)
    mpc,            \* "idle" | "new" | "constructed" | "returned" | "raised"
    \* ---- Spec: the vocabulary fields, one Transformer and one call of forward
    fields,         \* field -> [vocab_len, out]
    next_id,        \* identity of the next nn.Linear allocated for a field
    transformer,    \* the constructed Transformer, None before
    call,           \* arguments of the running forward call
    pc,             \* "new" | "constructed" | "encoded" | "decoded" | "searched"
                    \*   | "returned" | "raised"
    trace,          \* sub-calls made by forward so far, in order
    encoding,       \* forward's local: the encoder's result
    out,            \* forward's local: the teacher-forced decoder result
    output,         \* forward's local: the search routine's result
    result          \* the value forward returned

attnVars == <<attention, query, key, value, key_alt, value_alt, keep,
              attn_out, attn_out_alt, apc>>

mhVars == <<multihead, built_by, mh_inputs, mh_attn_args, mh_outputs,
            mh_result, mpc>>

tfVars == <<fields, next_id, transformer, call, pc, trace, encoding, out,
            output, result>>

vars == <<attnVars, mhVars, tfVars>>

None == "None"

\* the state of a specification's variables while another one runs
AttnIdle ==
    /\ attention = None /\ query = None /\ key = None /\ value = None
    /\ key_alt = None /\ value_alt = None /\ keep = None
    /\ attn_out = None /\ attn_out_alt = None /\ apc = "idle"

MultiHeadIdle ==
    /\ multihead = None /\ built_by = None /\ mh_inputs = None
    /\ mh_attn_args = None /\ mh_outputs = None /\ mh_result = None
    /\ mpc = "idle"

TransformerIdle ==
    /\ fields = None /\ next_id = 0 /\ transformer = None /\ call = None
    /\ pc = "idle" /\ trace = <<>> /\ encoding = <<>> /\ out = None
    /\ output = None /\ result = <<>>

-----------------------------------------------------------------------------
(* Bounds of the model.                                                    *)

MaxLen == 2          \* sequence lengths 1..MaxLen
MaxBatch == 2        \* batch sizes 1..MaxBatch
MaxWidth == 4        \* widths d_key, d_value of a MultiHead built alone: 1..MaxWidth
MaxDModel == 2       \* args.d_model 1..MaxDModel
MaxHeads == 2        \* n_heads 1..MaxHeads
MaxLayers == 2       \* n_layers 0..MaxLayers
MaxBeam == 2         \* beam -1..MaxBeam

-----------------------------------------------------------------------------
(* Exact rationals <<n, d>> with d > 0, kept in lowest terms.              *)

RECURSIVE Gcd(_, _)
Gcd(a, b) == IF b = 0 THEN a ELSE Gcd(b, a % b)

Abs(a) == IF a < 0 THEN -a ELSE a

Rat(n, d) == LET g == Gcd(Abs(n), d) IN <<n \div g, d \div g>>

RatAdd(x, y) == Rat(x[1] * y[2] + y[1] * x[2], x[2] * y[2])

RatMul(x, y) == Rat(x[1] * y[1], x[2] * y[2])

RECURSIVE Pow2(_)
Pow2(n) == IF n = 0 THEN 1 ELSE 2 * Pow2(n - 1)

RECURSIVE SumOver(_, _, _)
\* the sum of f[j] for j in lo..hi, f a function to integers
SumOver(f, lo, hi) == IF lo > hi THEN 0 ELSE f[lo] + SumOver(f, lo + 1, hi)

RECURSIVE RatSumOver(_, _, _)
RatSumOver(f, lo, hi) ==
    IF lo > hi THEN <<0, 1>> ELSE RatAdd(f[lo], RatSumOver(f, lo + 1, hi))

-----------------------------------------------------------------------------
(* Concrete rank-3 tensors: a size <<B, T, D>> and an entry per index.     *)

Idx(size) == (1..size[1]) \X (1..size[2]) \X (1..size[3])

Tensors(size, vals) == [size : {size}, data : [Idx(size) -> vals]]

Dim(x) == Len(x.size)

\* x.transpose(1, 2): swap the two trailing axes of a rank-3 tensor
Transpose12(x) ==
    LET size == <<x.size[1], x.size[3], x.size[2]>>
    IN [size |-> size,
        data |-> [i \in Idx(size) |-> x.data[<<i[1], i[3], i[2]>>]]]

\* x @ y, batched over the leading axis
MatMul(x, y) ==
    LET size == <<x.size[1], x.size[2], y.size[3]>>
    IN [size |-> size,
        data |-> [i \in Idx(size) |->
                    SumOver([k \in 1..x.size[3] |->
                                x.data[<<i[1], i[2], k>>] * y.data[<<i[1], k, i[3]>>]],
                            1, x.size[3])]]

\* dot_products.causal_mask(in_dim=2, out_dim=1): entries whose key position
\* (axis 2) exceeds the query position (axis 1) become -inf.  A tensor that
\* may hold -inf carries the set of indices where it does.
CausalMask(x) ==
    [size |-> x.size, data |-> x.data,
     neginf |-> {i \in Idx(x.size) : i[3] > i[2]}]

NoMask(x) == [size |-> x.size, data |-> x.data, neginf |-> {}]

\* (dot_products / self.scale).softmax(): over the last axis.  The real
\* exp(d / scale) is (e^(1/scale))^d; the model keeps exact arithmetic by
\* writing 2 for the base e^(1/scale) > 1, so a weight is 2^d / sum, and the
\* weight of -inf is 0.
ExpScaled(x, i) == IF i \in x.neginf THEN 0 ELSE Pow2(x.data[i])

ScaledSoftmax(x) ==
    LET rowsum(b, t) == SumOver([j \in 1..x.size[3] |-> ExpScaled(x, <<b, t, j>>)],
                                1, x.size[3])
    IN [size |-> x.size,
        data |-> [i \in Idx(x.size) |-> Rat(ExpScaled(x, i), rowsum(i[1], i[2]))]]

\* nn.Dropout(drop_ratio): identity in eval mode; in training an element is
\* kept (k[i] = 1) and scaled by 1/(1 - drop_ratio), or zeroed (k[i] = 0).
\* drop_ratio is the rational attn.drop_ratio.
Dropout(attn, k, w) ==
    IF ~attn.training THEN w
    ELSE [size |-> w.size,
          data |-> [i \in Idx(w.size) |->
                      RatMul(RatMul(<<k[i], 1>>, w.data[i]),
                             <<attn.drop_ratio[2], attn.drop_ratio[2] - attn.drop_ratio[1]>>)]]

\* weights @ value, the weights rational and the values integers
RatMatMul(w, y) ==
    LET size == <<w.size[1], w.size[2], y.size[3]>>
    IN [size |-> size,
        data |-> [i \in Idx(size) |->
                    RatSumOver([j \in 1..w.size[3] |->
                                   RatMul(w.data[<<i[1], i[2], j>>],
                                          <<y.data[<<i[1], j, i[3]>>], 1>>)],
                               1, w.size[3])]]

\* Attention.__init__(d_key, drop_ratio, causal); d_key stands for
\* scale = sqrt(d_key), drop_ratio is a rational <<p, q>>
AttentionInit(d_key, drop_ratio, causal, training) ==
    [d_key |-> d_key, drop_ratio |-> drop_ratio, causal |-> causal,
     training |-> training]

\* Attention.forward without the causal branch
AttentionForwardUnmasked(attn, k, q, ky, v) ==
    RatMatMul(Dropout(attn, k, ScaledSoftmax(NoMask(MatMul(q, Transpose12(ky))))), v)

\* Attention.forward(query, key, value)
AttentionForward(attn, k, q, ky, v) ==
    LET dot_products == MatMul(q, Transpose12(ky))
        masked == IF attn.causal /\ Dim(q) = 3
                  THEN CausalMask(dot_products)
                  ELSE NoMask(dot_products)
    IN RatMatMul(Dropout(attn, k, ScaledSoftmax(masked)), v)

-----------------------------------------------------------------------------
(* Abstract tensors: the size, for each sequence position the set of      *)
(* input positions its entries are computed from (dep), and the chain of  *)
(* layers applied so far (hist).  An operation the tensor framework       *)
(* rejects yields Error.                                                   *)

Error == [ok |-> FALSE, size |-> <<>>, dep |-> <<>>, hist |-> <<>>]

Tensor(size, dep, hist) == [ok |-> TRUE, size |-> size, dep |-> dep, hist |-> hist]

Last(s) == s[Len(s)]

\* a Python axis number (0-based, negative from the end) as a 1-based index
Axis(size, d) == IF d < 0 THEN Len(size) + d + 1 ELSE d + 1

RECURSIVE UnionOver(_, _)
\* the union of f[j] for j in S
UnionOver(f, S) ==
    IF S = {} THEN {}
    ELSE LET j == CHOOSE x \in S : TRUE IN f[j] \cup UnionOver(f, S \ {j})

\* nn.Linear(in, out) applied along the last axis
LinearInit(d_in, d_out) == [in |-> d_in, out |-> d_out]

Linear(lin, x) ==
    IF ~x.ok \/ Len(x.size) = 0 \/ Last(x.size) # lin.in THEN Error
    ELSE [x EXCEPT !.size = [x.size EXCEPT ![Len(x.size)] = lin.out]]

\* x.split_dim(dim, n): the axis of size s becomes two axes (s/n, n)
SplitDim(x, dim, n) ==
    IF ~x.ok THEN Error
    ELSE LET a == Axis(x.size, dim)
             s == x.size[a]
         IN IF s % n # 0 THEN Error
            ELSE [x EXCEPT !.size = SubSeq(x.size, 1, a - 1) \o <<s \div n, n>>
                                      \o SubSeq(x.size, a + 1, Len(x.size))]

\* x.combine_dims(d1, d2): axis d2 is merged into axis d1 and removed
CombineDims(x, d1, d2) ==
    IF ~x.ok THEN Error
    ELSE LET a == Axis(x.size, d1)
             b == Axis(x.size, d2)
             merged == [x.size EXCEPT ![a] = x.size[a] * x.size[b]]
         IN [x EXCEPT !.size = SubSeq(merged, 1, b - 1)
                                 \o SubSeq(merged, b + 1, Len(merged))]

\* the key positions query position i may use after dot_products.causal_mask
UnmaskedKeys(i, Tk) == {j \in 1..Tk : j <= i}

\* Attention.forward on abstract rank-3 operands: the result row of query
\* position i is computed from that query row and from the key and value
\* rows whose softmax weight is not forced to zero
AttentionForwardAbs(attn, q, k, v) ==
    IF ~q.ok \/ ~k.ok \/ ~v.ok THEN Error
    ELSE IF Len(q.size) # 3 \/ Len(k.size) # 3 \/ Len(v.size) # 3 THEN Error
    ELSE IF q.size[1] # k.size[1] \/ q.size[3] # k.size[3]
            \/ k.size[1] # v.size[1] \/ k.size[2] # v.size[2] THEN Error
    ELSE LET Tk == k.size[2]
             keys(i) == IF attn.causal /\ Len(q.size) = 3
                        THEN UnmaskedKeys(i, Tk)
                        ELSE 1..Tk
         IN Tensor(<<q.size[1], q.size[2], v.size[3]>>,
                   [i \in 1..q.size[2] |->
                       q.dep[i] \cup UnionOver(k.dep, keys(i))
                                \cup UnionOver(v.dep, keys(i))],
                   q.hist)

\* MultiHead.__init__ whose output projection keeps the width d_value
MultiHeadInitWoValue(attn, d_key, d_value, n_heads) ==
    [kind |-> "MultiHead", attention |-> attn,
     wq |-> LinearInit(d_key, d_key), wk |-> LinearInit(d_key, d_key),
     wv |-> LinearInit(d_value, d_value), wo |-> LinearInit(d_value, d_value),
     n_heads |-> n_heads]

\* MultiHead.__init__(attention, d_key, d_value, n_heads)
MultiHeadInit(attn, d_key, d_value, n_heads) ==
    [kind |-> "MultiHead", attention |-> attn,
     wq |-> LinearInit(d_key, d_key), wk |-> LinearInit(d_key, d_key),
     wv |-> LinearInit(d_value, d_value), wo |-> LinearInit(d_value, d_key),
     n_heads |-> n_heads]

\* B x T x D -> B x T x (D/N) x N -> (B*N) x T x (D/N)
FoldHeads(mh, x) == CombineDims(SplitDim(x, -1, mh.n_heads), 0, -1)

\* (B*N) x T x (D/N) -> B x N x T x (D/N) -> B x T x D
UnfoldHeads(mh, x) == CombineDims(SplitDim(x, 0, mh.n_heads), -1, 1)

\* what Attention.forward receives inside MultiHead.forward
MultiHeadAttnArgs(mh, q, k, v) ==
    <<FoldHeads(mh, Linear(mh.wq, q)), FoldHeads(mh, Linear(mh.wk, k)),
      FoldHeads(mh, Linear(mh.wv, v))>>

\* the attention outputs with the heads unfolded, before wo
MultiHeadOutputs(mh, q, k, v) ==
    LET a == MultiHeadAttnArgs(mh, q, k, v)
    IN UnfoldHeads(mh, AttentionForwardAbs(mh.attention, a[1], a[2], a[3]))

\* MultiHead.forward(query, key, value)
MultiHeadForward(mh, q, k, v) == Linear(mh.wo, MultiHeadOutputs(mh, q, k, v))

\* LayerNorm(d_model): gamma and beta have width d_model; the mean and std
\* are taken over the last axis, so each position is normalised on its own
LayerNormInit(d_model) == [d_model |-> d_model]

LayerNormForward(norm, x) ==
    IF ~x.ok \/ Last(x.size) # norm.d_model THEN Error ELSE x

\* FeedForward(d_model, d_hidden, drop_ratio); relu and dropout are
\* elementwise
FeedForwardInit(d_model, d_hidden) ==
    [kind |-> "FeedForward", linear1 |-> LinearInit(d_model, d_hidden),
     linear2 |-> LinearInit(d_hidden, d_model)]

FeedForwardForward(ff, x) == Linear(ff.linear2, Linear(ff.linear1, x))

\* ResidualBlock(layer, d_model, drop_ratio)
ResidualBlockInit(layer, d_model) ==
    [layer |-> layer, norm |-> LayerNormInit(d_model)]

\* self.layer(*x)
LayerCall(layer, xs) ==
    IF layer.kind = "MultiHead"
    THEN MultiHeadForward(layer, xs[1], xs[2], xs[3])
    ELSE FeedForwardForward(layer, xs[1])

\* x + y for operands of one size, position by position
Add(x, y) ==
    IF ~x.ok \/ ~y.ok \/ x.size # y.size THEN Error
    ELSE [x EXCEPT !.dep = [i \in DOMAIN x.dep |-> x.dep[i] \cup y.dep[i]]]

\* ResidualBlock.forward(*x): x[0] + dropout(norm(layer(*x)))
ResidualBlockForward(block, xs) ==
    Add(xs[1], LayerNormForward(block.norm, LayerCall(block.layer, xs)))

\* EncoderLayer(args); id is the object's place in the ModuleList
EncoderLayerInit(args, id) ==
    [id |-> id,
     selfattn |-> ResidualBlockInit(
         MultiHeadInit(AttentionInit(args.d_model, args.drop_ratio, FALSE, FALSE),
                       args.d_model, args.d_model, args.n_heads),
         args.d_model),
     feedforward |-> ResidualBlockInit(
         FeedForwardInit(args.d_model, args.d_hidden), args.d_model)]

\* stamp the layer that produced a tensor
Stamp(y, hist) == IF y.ok THEN [y EXCEPT !.hist = hist] ELSE Error

EncoderLayerForward(layer, x) ==
    LET x1 == ResidualBlockForward(layer.selfattn, <<x, x, x>>)
    IN Stamp(ResidualBlockForward(layer.feedforward, <<x1>>),
             Append(x.hist, <<"EncoderLayer", layer.id>>))

\* DecoderLayer(args) whose self-attention is not causal
DecoderLayerInitNotCausal(args, id) ==
    [id |-> id,
     selfattn |-> ResidualBlockInit(
         MultiHeadInit(AttentionInit(args.d_model, args.drop_ratio, FALSE, FALSE),
                       args.d_model, args.d_model, args.n_heads),
         args.d_model),
     attention |-> ResidualBlockInit(
         MultiHeadInit(AttentionInit(args.d_model, args.drop_ratio, FALSE, FALSE),
                       args.d_model, args.d_model, args.n_heads),
         args.d_model),
     feedforward |-> ResidualBlockInit(
         FeedForwardInit(args.d_model, args.d_hidden), args.d_model)]

\* DecoderLayer(args)
DecoderLayerInit(args, id) ==
    [id |-> id,
     selfattn |-> ResidualBlockInit(
         MultiHeadInit(AttentionInit(args.d_model, args.drop_ratio, TRUE, FALSE),
                       args.d_model, args.d_model, args.n_heads),
         args.d_model),
     attention |-> ResidualBlockInit(
         MultiHeadInit(AttentionInit(args.d_model, args.drop_ratio, FALSE, FALSE),
                       args.d_model, args.d_model, args.n_heads),
         args.d_model),
     feedforward |-> ResidualBlockInit(
         FeedForwardInit(args.d_model, args.d_hidden), args.d_model)]

DecoderLayerForward(layer, x, enc) ==
    LET x1 == ResidualBlockForward(layer.selfattn, <<x, x, x>>)
        x2 == ResidualBlockForward(layer.attention, <<x1, enc, enc>>)
    IN Stamp(ResidualBlockForward(layer.feedforward, <<x2>>),
             Append(x.hist, <<"DecoderLayer", layer.id, enc.hist>>))

\* F.embedding(x, self.out.weight * sqrt(d_model)) on token ids B x T, then
\* x += positional_encodings_like(x) and dropout: row i is computed from
\* token i alone; the weight of nn.Linear(in, out) is out x in, so the rows
\* have width in
Embed(lin, tokens) ==
    IF ~tokens.ok \/ Len(tokens.size) # 2 THEN Error
    ELSE Tensor(tokens.size \o <<lin.in>>, tokens.dep,
                <<<<"embedding", lin.id>>>>)

\* Encoder(field, args); flds holds the fields' attributes at this moment
EncoderInit(flds, field, args) ==
    [out |-> flds[field].out,
     layers |-> [i \in 1..args.n_layers |-> EncoderLayerInit(args, i)],
     field |-> field, d_model |-> args.d_model]

RECURSIVE EncoderLoop(_, _, _, _)
\* the loop of Encoder.forward from layer l on: x = layer(x); encoding.append(x)
EncoderLoop(layers, x, l, acc) ==
    IF l > Len(layers) THEN acc
    ELSE LET y == EncoderLayerForward(layers[l], x)
         IN EncoderLoop(layers, y, l + 1, Append(acc, y))

\* Encoder.forward(x): the list of every layer's output
EncoderForward(enc, x) == EncoderLoop(enc.layers, Embed(enc.out, x), 1, <<>>)

\* Decoder(field, args)
DecoderInit(flds, field, args) ==
    [out |-> flds[field].out,
     layers |-> [i \in 1..args.n_layers |-> DecoderLayerInit(args, i)],
     field |-> field, d_model |-> args.d_model]

Min(a, b) == IF a < b THEN a ELSE b

RECURSIVE DecoderLoopLast(_, _, _, _)
\* the decoder loop with every layer attending to the last encoder output
DecoderLoopLast(layers, enc, x, l) ==
    IF l > Min(Len(layers), Len(enc)) THEN x
    ELSE DecoderLoopLast(layers, enc,
                         DecoderLayerForward(layers[l], x, enc[Len(enc)]), l + 1)

RECURSIVE DecoderLoop(_, _, _, _)
\* for l, (layer, enc) in enumerate(zip(self.layers, encoding)): x = layer(x, enc)
DecoderLoop(layers, enc, x, l) ==
    IF l > Min(Len(layers), Len(enc)) THEN x
    ELSE DecoderLoop(layers, enc, DecoderLayerForward(layers[l], x, enc[l]), l + 1)

\* Decoder.forward(x, encoding)
DecoderForward(dec, x, enc) == DecoderLoop(dec.layers, enc, Embed(dec.out, x), 1)

\* the orders in which a loop may visit the elements of a set
Orders(S) ==
    {o \in [1..Cardinality(S) -> S] : \A a, b \in DOMAIN o : o[a] = o[b] => a = b}

\* one nn.Linear(d_model, len(src.vocab)) given to both fields
FieldOutputsShared(flds, src, trg, order, id0, d_model) ==
    [f \in DOMAIN flds |->
        IF f \in {src, trg}
        THEN [flds[f] EXCEPT !.out = [id |-> id0 + 1, in |-> d_model,
                                      out |-> flds[src].vocab_len]]
        ELSE flds[f]]

\* for field in set((src, trg)): field.out = nn.Linear(d_model, len(field.vocab)),
\* the set visited in the order given; every nn.Linear is a new object
FieldOutputs(flds, src, trg, order, id0, d_model) ==
    [f \in DOMAIN flds |->
        IF f \in {src, trg}
        THEN [flds[f] EXCEPT !.out =
                 [id |-> id0 + (CHOOSE k \in DOMAIN order : order[k] = f),
                  in |-> d_model, out |-> flds[f].vocab_len]]
        ELSE flds[f]]

\* Transformer(src, trg, args), built once the fields carry their .out
TransformerInit(flds, src, trg, args) ==
    [src |-> src, trg |-> trg, args |-> args,
     encoder |-> EncoderInit(flds, src, args),
     decoder |-> DecoderInit(flds, trg, args)]

\* the test of line 189 with the return_probs disjunct left out
RunsDecoderNotDecoding(c) == ~c.decoding

\* if (return_probs and decoding) or (not decoding)
RunsDecoder(c) == (c.return_probs /\ c.decoding) \/ ~c.decoding

\* the search call choosing beam search only for beam > 1
SearchCallAboveOne(c, enc) ==
    IF c.beam > 1
    THEN [routine |-> "beam_search", args |-> <<enc, c.beam, c.alpha>>]
    ELSE [routine |-> "greedy", args |-> <<enc>>]

\* if beam == 1: self.decoder.greedy(encoding)
\* else: self.decoder.beam_search(encoding, beam, alpha)
SearchCall(c, enc) ==
    IF c.beam = 1
    THEN [routine |-> "greedy", args |-> <<enc>>]
    ELSE [routine |-> "beam_search", args |-> <<enc, c.beam, c.alpha>>]

\* self.decoder.out(x)
Project(lin, x) ==
    LET y == Linear(lin, x)
    IN Stamp(y, Append(x.hist, <<"out", lin.id>>))

\* softmax over the last axis
Softmax(x) == Stamp(x, Append(x.hist, <<"softmax">>))

\* the returns of forward with the decoder output projected before it is returned
ReturnValueProjected(tf, c, o, found) ==
    IF c.decoding
    THEN IF c.return_probs
         THEN <<found, o, Softmax(Project(tf.decoder.out, o))>>
         ELSE <<found>>
    ELSE IF c.return_probs
         THEN <<Project(tf.decoder.out, o), Softmax(Project(tf.decoder.out, o))>>
         ELSE <<Project(tf.decoder.out, o)>>

\* lines 198-204: the value forward returns, o the local out and found the
\* local output
ReturnValue(tf, c, o, found) ==
    IF c.decoding
    THEN IF c.return_probs
         THEN <<found, o, Softmax(Project(tf.decoder.out, o))>>
         ELSE <<found>>
    ELSE IF c.return_probs
         THEN <<o, Softmax(Project(tf.decoder.out, o))>>
         ELSE <<o>>

\* whether the return statement taken reads the local out
ReturnReadsOut(c) == c.return_probs \/ ~c.decoding

-----------------------------------------------------------------------------
(* SpecAttention: Attention.forward on a base call and on a call whose key *)
(* and value entries were changed.                                         *)

\* Entries are drawn from {0, 1}; the operands are rank-3 (batch, seq,
\* feature) with one batch row and one feature, and query and key have the
\* same length T in 1..MaxLen.
Values == {0, 1}
AttnSize(T) == <<1, T, 1>>

\* the keep masks of one dropout pass: every element kept, or one zeroed
KeepMasks(size) ==
    LET ones == [i \in Idx(size) |-> 1]
    IN {ones} \cup {[ones EXCEPT ![z] = 0] : z \in Idx(size)}

AttnInit ==
    /\ \E causal \in BOOLEAN, training \in BOOLEAN :
          attention = AttentionInit(1, <<1, 2>>, causal, training)
    /\ \E T \in 1..MaxLen :
          /\ query \in Tensors(AttnSize(T), Values)
          /\ key \in Tensors(AttnSize(T), Values)
          /\ value \in Tensors(AttnSize(T), Values)
    /\ key_alt = key
    /\ value_alt = value
    /\ keep = None
    /\ attn_out = None
    /\ attn_out_alt = None
    /\ apc = "ready"
    /\ MultiHeadIdle
    /\ TransformerIdle

\* the caller changes entries of key and value at positions after p
ChangeKeyValue ==
    /\ apc = "ready"
    /\ \E p \in 1..key.size[2] :
         \E k \in Tensors(key.size, Values), v \in Tensors(value.size, Values) :
          /\ \A i \in Idx(key.size) : i[2] <= p => k.data[i] = key.data[i]
          /\ \A i \in Idx(value.size) : i[2] <= p => v.data[i] = value.data[i]
          /\ key_alt' = k
          /\ value_alt' = v
    /\ apc' = "changed"
    /\ UNCHANGED <<attention, query, key, value, keep, attn_out, attn_out_alt>>
    /\ UNCHANGED <<mhVars, tfVars>>

\* forward on the base operands and on the changed ones, with the same
\* dropout draw
AttentionCall ==
    /\ apc = "changed"
    /\ \E k \in (IF attention.training
                 THEN KeepMasks(<<query.size[1], query.size[2], key.size[2]>>)
                 ELSE {[i \in Idx(<<query.size[1], query.size[2], key.size[2]>>) |-> 1]}) :
          /\ keep' = k
          /\ attn_out' = AttentionForward(attention, k, query, key, value)
          /\ attn_out_alt' = AttentionForward(attention, k, query, key_alt, value_alt)
    /\ apc' = "done"
    /\ UNCHANGED <<attention, query, key, value, key_alt, value_alt>>
    /\ UNCHANGED <<mhVars, tfVars>>

AttnNext == ChangeKeyValue \/ AttentionCall

SpecAttention == AttnInit /\ [][AttnNext]_vars

\* key/value positions up to and including i are the same in both calls
AgreeUpTo(i) ==
    \A b \in 1..key.size[1], j \in 1..i, c \in 1..key.size[3] :
        /\ key.data[<<b, j, c>>] = key_alt.data[<<b, j, c>>]
        /\ value.data[<<b, j, c>>] = value_alt.data[<<b, j, c>>]

RowsEqual(i) ==
    \A b \in 1..attn_out.size[1], c \in 1..attn_out.size[3] :
        attn_out.data[<<b, i, c>>] = attn_out_alt.data[<<b, i, c>>]

\* C1: with causal=True on rank-3 operands, the output row of query position
\* i is the same for any two key/value pairs that agree on positions <= i.
CausalRowInvariant ==
    (apc = "done" /\ attention.causal /\ Dim(query) = 3) =>
        \A i \in 1..query.size[2] : AgreeUpTo(i) => RowsEqual(i)

\* C1 witness: a causal call whose key/value changed after position i; row i
\* is the same and a later row differs.
CausalRowWitness ==
    /\ apc = "done" /\ attention.causal /\ Dim(query) = 3
    /\ \E i \in 1..query.size[2] :
          /\ AgreeUpTo(i) /\ ~AgreeUpTo(query.size[2])
          /\ RowsEqual(i) /\ ~RowsEqual(query.size[2])

-----------------------------------------------------------------------------
(* SpecMultiHead: a MultiHead is constructed, directly or as the           *)
(* self-attention or cross-attention of an EncoderLayer or DecoderLayer,   *)
(* and forward is called on it once.                                       *)

Args(d_model, d_hidden, n_heads, n_layers) ==
    [d_model |-> d_model, d_hidden |-> d_hidden, n_heads |-> n_heads,
     n_layers |-> n_layers, drop_ratio |-> <<1, 2>>]

MultiHeadSpecInit ==
    /\ multihead = None /\ built_by = None /\ mh_inputs = None
    /\ mh_attn_args = None /\ mh_outputs = None /\ mh_result = None
    /\ mpc = "new"
    /\ AttnIdle
    /\ TransformerIdle

\* MultiHead(Attention(d_key, drop_ratio, causal), d_key, d_value, n_heads)
MultiHeadConstruct ==
    /\ mpc = "new"
    /\ \E d_key \in 1..MaxWidth, d_value \in 1..MaxWidth, n_heads \in 1..MaxHeads,
          causal \in BOOLEAN :
          multihead' = MultiHeadInit(AttentionInit(d_key, <<1, 2>>, causal, FALSE),
                                     d_key, d_value, n_heads)
    /\ built_by' = "MultiHead"
    /\ mpc' = "constructed"
    /\ UNCHANGED <<mh_inputs, mh_attn_args, mh_outputs, mh_result>>
    /\ UNCHANGED <<attnVars, tfVars>>

\* EncoderLayer(args).selfattn.layer
EncoderLayerConstruct ==
    /\ mpc = "new"
    /\ \E d_model \in 1..MaxWidth, n_heads \in 1..MaxHeads :
          multihead' = EncoderLayerInit(Args(d_model, d_model, n_heads, 1), 1).selfattn.layer
    /\ built_by' = "EncoderLayer"
    /\ mpc' = "constructed"
    /\ UNCHANGED <<mh_inputs, mh_attn_args, mh_outputs, mh_result>>
    /\ UNCHANGED <<attnVars, tfVars>>

\* DecoderLayer(args).selfattn.layer or DecoderLayer(args).attention.layer
DecoderLayerConstruct ==
    /\ mpc = "new"
    /\ \E d_model \in 1..MaxWidth, n_heads \in 1..MaxHeads, self \in BOOLEAN :
          LET layer == DecoderLayerInit(Args(d_model, d_model, n_heads, 1), 1)
          IN multihead' = IF self THEN layer.selfattn.layer ELSE layer.attention.layer
    /\ built_by' = "DecoderLayer"
    /\ mpc' = "constructed"
    /\ UNCHANGED <<mh_inputs, mh_attn_args, mh_outputs, mh_result>>
    /\ UNCHANGED <<attnVars, tfVars>>

\* an input of the call: one source position per row
Operand(name, B, T, D) ==
    Tensor(<<B, T, D>>, [i \in 1..T |-> {<<name, i>>}], <<<<name>>>>)

\* multihead(query, key, value) with query B x Tq x d_key, key B x Tk x d_key
\* and value B x Tk x d_value
MultiHeadCall ==
    /\ mpc = "constructed"
    /\ \E B \in 1..MaxBatch, Tq \in 1..MaxLen, Tk \in 1..MaxLen :
          LET q == Operand("query", B, Tq, multihead.wq.in)
              k == Operand("key", B, Tk, multihead.wk.in)
              v == Operand("value", B, Tk, multihead.wv.in)
              r == MultiHeadForward(multihead, q, k, v)
          IN /\ mh_inputs' = <<q, k, v>>
             /\ mh_attn_args' = MultiHeadAttnArgs(multihead, q, k, v)
             /\ mh_outputs' = MultiHeadOutputs(multihead, q, k, v)
             /\ mh_result' = r
             /\ mpc' = IF r.ok THEN "returned" ELSE "raised"
    /\ UNCHANGED <<multihead, built_by>>
    /\ UNCHANGED <<attnVars, tfVars>>

MultiHeadNext ==
    \/ MultiHeadConstruct
    \/ EncoderLayerConstruct
    \/ DecoderLayerConstruct
    \/ MultiHeadCall

SpecMultiHead == MultiHeadSpecInit /\ [][MultiHeadNext]_vars

\* the hyperparameters of the constructed module and the sizes of the call
MhDKey == multihead.wq.in
MhDValue == multihead.wv.in
MhHeads == multihead.n_heads
MhBatch == mh_inputs[1].size[1]
MhTq == mh_inputs[1].size[2]
MhTk == mh_inputs[2].size[2]
MhCalled == mpc \in {"returned", "raised"}

\* C7: a MultiHead whose d_key or d_value is not divisible by n_heads is
\* rejected at construction, so every module that exists has both divisible.
MultiHeadValidatedAtConstruction ==
    mpc \in {"constructed", "returned", "raised"} => (MhDKey % MhHeads = 0 /\ MhDValue % MhHeads = 0)

\* C8 as stated: for every n_heads that divides d_value, forward returns a
\* tensor of size B x Tq x d_value.
MultiHeadOutputIsDValue ==
    (MhCalled /\ MhDValue % MhHeads = 0) =>
        (mh_result.ok /\ mh_result.size = <<MhBatch, MhTq, MhDValue>>)

\* C8 amended: for every n_heads that divides d_key and d_value, forward
\* returns a tensor of size B x Tq x d_key; the operands reach the attention
\* folded to (B*N) x T x (D/N), and unfolding its output restores B x Tq x
\* d_value before wo.
MultiHeadOutputIsDKey ==
    (MhCalled /\ MhDKey % MhHeads = 0 /\ MhDValue % MhHeads = 0) =>
        /\ mpc = "returned"
        /\ mh_result.size = <<MhBatch, MhTq, MhDKey>>
        /\ mh_attn_args[1].size = <<MhBatch * MhHeads, MhTq, MhDKey \div MhHeads>>
        /\ mh_attn_args[2].size = <<MhBatch * MhHeads, MhTk, MhDKey \div MhHeads>>
        /\ mh_attn_args[3].size = <<MhBatch * MhHeads, MhTk, MhDValue \div MhHeads>>
        /\ mh_outputs.size = <<MhBatch, MhTq, MhDValue>>

\* C8 witness: a call with several heads and d_key # d_value returned
MultiHeadOutputWitness ==
    /\ mpc = "returned" /\ MhHeads > 1 /\ MhBatch > 1
    /\ MhDKey # MhDValue
    /\ mh_result.size = <<MhBatch, MhTq, MhDKey>>

\* C10: inside the MultiHead of an EncoderLayer or DecoderLayer the divisor
\* sqrt(attention.d_key) is the square root of the width of the query that
\* Attention.forward receives, d_model / n_heads.
AttentionScaleIsOperandWidth ==
    (mpc = "returned" /\ built_by \in {"EncoderLayer", "DecoderLayer"}) =>
        /\ multihead.attention.d_key = mh_attn_args[1].size[3]
        /\ multihead.attention.d_key = MhDKey \div MhHeads

-----------------------------------------------------------------------------
(* Spec: Transformer(src, trg, args) is constructed over two vocabulary    *)
(* fields and forward is called once; forward is followed sub-call by      *)
(* sub-call.                                                               *)

Fields == {"f1", "f2"}

\* len(field.vocab)
VocabLen == [f \in Fields |-> IF f = "f1" THEN 3 ELSE 5]

\* a field that has no .out yet, and forward's local out before assignment
NoLinear == [id |-> 0, in |-> 0, out |-> 0]
Unbound == [ok |-> FALSE, size |-> <<>>, dep |-> <<>>, hist |-> <<<<"unbound">>>>]
NoOutput == [routine |-> "none", args |-> <<>>]
NoCall == [decoding |-> FALSE, beam |-> 1, alpha |-> "0.6", return_probs |-> FALSE,
           encoder_inputs |-> Unbound, decoder_inputs |-> Unbound]
NoTransformer == [src |-> "", trg |-> ""]

\* token ids B x T: row i is token i of the named input
Tokens(name, B, T) == Tensor(<<B, T>>, [i \in 1..T |-> {<<name, i>>}], <<<<name>>>>)

Init ==
    /\ fields = [f \in Fields |-> [vocab_len |-> VocabLen[f], out |-> NoLinear]]
    /\ next_id = 0
    /\ transformer = NoTransformer
    /\ call = NoCall
    /\ pc = "new"
    /\ trace = <<>>
    /\ encoding = <<>>
    /\ out = Unbound
    /\ output = NoOutput
    /\ result = <<>>
    /\ AttnIdle
    /\ MultiHeadIdle

\* Transformer.__init__(src, trg, args)
TransformerConstruct ==
    /\ pc = "new"
    /\ \E src \in Fields, trg \in Fields, d_model \in 1..MaxDModel,
          n_heads \in 1..MaxHeads, n_layers \in 0..MaxLayers :
         \E order \in Orders({src, trg}) :
            LET args == Args(d_model, d_model + 1, n_heads, n_layers)
                flds == FieldOutputs(fields, src, trg, order, next_id, d_model)
            IN /\ fields' = flds
               /\ next_id' = next_id + Cardinality({src, trg})
               /\ transformer' = TransformerInit(flds, src, trg, args)
    /\ pc' = "constructed"
    /\ UNCHANGED <<call, trace, encoding, out, output, result>>
    /\ UNCHANGED <<attnVars, mhVars>>

AllOk(list) == \A i \in DOMAIN list : list[i].ok

\* forward(encoder_inputs, decoder_inputs, decoding, beam, alpha, return_probs)
\* up to line 187: encoding = self.encoder(encoder_inputs); beam keeps its
\* default 1 in a call that does not decode
ForwardEncode ==
    /\ pc = "constructed"
    /\ \E decoding \in BOOLEAN, return_probs \in BOOLEAN,
          B \in {1, MaxBatch}, Ts \in {1, MaxLen}, Tt \in {1, MaxLen} :
        \E beam \in (IF decoding THEN (-1)..MaxBeam ELSE {1}) :
          LET c == [decoding |-> decoding, beam |-> beam, alpha |-> "0.6",
                    return_probs |-> return_probs,
                    encoder_inputs |-> Tokens("encoder_inputs", B, Ts),
                    decoder_inputs |-> Tokens("decoder_inputs", B, Tt)]
              enc == EncoderForward(transformer.encoder, c.encoder_inputs)
          IN /\ call' = c
             /\ encoding' = enc
             /\ pc' = IF AllOk(enc) THEN "encoded" ELSE "raised"
    /\ trace' = Append(trace, "encoder")
    /\ UNCHANGED <<fields, next_id, transformer, out, output, result>>
    /\ UNCHANGED <<attnVars, mhVars>>

\* lines 189-190: out = self.decoder(decoder_inputs, encoding), or nothing
ForwardDecode ==
    /\ pc = "encoded"
    /\ IF RunsDecoder(call)
       THEN LET o == DecoderForward(transformer.decoder, call.decoder_inputs, encoding)
            IN /\ out' = o
               /\ trace' = Append(trace, "decoder")
               /\ pc' = IF o.ok THEN "decoded" ELSE "raised"
       ELSE /\ pc' = "decoded"
            /\ UNCHANGED <<out, trace>>
    /\ UNCHANGED <<fields, next_id, transformer, call, encoding, output, result>>
    /\ UNCHANGED <<attnVars, mhVars>>

\* lines 192-196: the search routine, when decoding
ForwardSearch ==
    /\ pc = "decoded"
    /\ call.decoding
    /\ output' = SearchCall(call, encoding)
    /\ trace' = Append(trace, SearchCall(call, encoding).routine)
    /\ pc' = "searched"
    /\ UNCHANGED <<fields, next_id, transformer, call, encoding, out, result>>
    /\ UNCHANGED <<attnVars, mhVars>>

\* lines 198-204: the return statement; reading out before it was assigned
\* raises UnboundLocalError
ForwardReturn ==
    /\ pc = IF call.decoding THEN "searched" ELSE "decoded"
    /\ IF ReturnReadsOut(call) /\ out = Unbound
       THEN /\ pc' = "unbound_error"
            /\ UNCHANGED result
       ELSE /\ result' = ReturnValue(transformer, call, out, output)
            /\ pc' = "returned"
    /\ UNCHANGED <<fields, next_id, transformer, call, trace, encoding, out, output>>
    /\ UNCHANGED <<attnVars, mhVars>>

Next ==
    \/ TransformerConstruct
    \/ ForwardEncode
    \/ ForwardDecode
    \/ ForwardSearch
    \/ ForwardReturn

Spec == Init /\ [][Next]_vars

\* the call and the model it runs on
Constructed == pc # "new" /\ pc # "idle"
Called == pc \in {"encoded", "decoded", "searched", "returned"}
DModel == transformer.args.d_model
NLayers == transformer.args.n_layers
CallBatch == call.decoder_inputs.size[1]
CallTs == call.encoder_inputs.size[2]
CallTt == call.decoder_inputs.size[2]
Count(e) == Cardinality({k \in DOMAIN trace : trace[k] = e})
Searches == Count("greedy") + Count("beam_search")

\* the chain of layers behind element i of the encoder's list
EncoderHist(i) ==
    <<<<"embedding", transformer.encoder.out.id>>>>
        \o [l \in 1..i |-> <<"EncoderLayer", l>>]

\* C2: after the decoder stack, position i of the output is computed only
\* from decoder input positions <= i and from encoder input positions.
DecoderIsCausal ==
    (Called /\ out.ok) =>
        \A i \in 1..CallTt :
            out.dep[i] \subseteq
                {<<"decoder_inputs", j>> : j \in 1..i}
                    \cup {<<"encoder_inputs", j>> : j \in 1..CallTs}

\* C2 witness: a stack of causal multi-head layers ran on several positions;
\* the first position uses decoder input 1 only, the last uses them all, and
\* both use the whole encoder input.
DecoderIsCausalWitness ==
    /\ pc = "decoded" /\ out.ok
    /\ NLayers > 1 /\ transformer.args.n_heads > 1 /\ CallTt > 1 /\ CallTs > 1
    /\ out.dep[1] = {<<"decoder_inputs", 1>>}
                        \cup {<<"encoder_inputs", j>> : j \in 1..CallTs}
    /\ out.dep[CallTt] = {<<"decoder_inputs", j>> : j \in 1..CallTt}
                        \cup {<<"encoder_inputs", j>> : j \in 1..CallTs}

\* C3: the encoder returns n_layers elements, element i being layer i applied
\* to element i-1 (layer 1 to the embedded input); the decoder applies its
\* n_layers layers in order, layer i with element i as key and value.
LayersPairedByIndex ==
    Called =>
        /\ Len(encoding) = NLayers
        /\ \A i \in 1..NLayers : encoding[i].hist = EncoderHist(i)
        /\ out.ok =>
              out.hist = <<<<"embedding", transformer.decoder.out.id>>>>
                  \o [l \in 1..NLayers |-> <<"DecoderLayer", l, EncoderHist(l)>>]

\* C3 witness: a decoder pass over a stack of several layers
LayersPairedWitness ==
    /\ pc = "decoded" /\ out.ok /\ NLayers > 1
    /\ Len(out.hist) = NLayers + 1
    /\ out.hist[NLayers + 1][3] = encoding[NLayers].hist
    /\ out.hist[2][3] = encoding[1].hist

\* C4 as stated: when decoding, exactly one search routine is called, greedy
\* for beam = 1 and beam_search for beam > 1, and beam_search only for beam > 1.
BeamSearchOnlyAboveOne ==
    (pc = "returned" /\ call.decoding) =>
        /\ Searches = 1
        /\ call.beam = 1 => output.routine = "greedy"
        /\ call.beam > 1 => output.routine = "beam_search"
        /\ output.routine = "beam_search" => call.beam > 1

\* C4 amended: when decoding, exactly one search routine is called:
\* greedy(encoding) for beam = 1 and beam_search(encoding, beam, alpha) for
\* every other beam, beam < 1 included; without decoding none is called.
SearchDelegation ==
    /\ (pc \in {"searched", "returned"} /\ call.decoding) =>
          /\ Searches = 1
          /\ trace[Len(trace)] = output.routine
          /\ call.beam = 1 =>
                (output.routine = "greedy" /\ output.args = <<encoding>>)
          /\ call.beam # 1 =>
                /\ output.routine = "beam_search"
                /\ output.args = <<encoding, call.beam, call.alpha>>
    /\ (Constructed /\ ~call.decoding) => Searches = 0

\* C4 witness: a decoding call with beam < 1 went to beam_search
SearchDelegationWitness ==
    /\ pc = "returned" /\ call.decoding /\ call.beam < 1
    /\ output.routine = "beam_search" /\ Searches = 1

\* C5 as stated: without decoding, forward returns the decoder output
\* projected onto the target vocabulary (last dimension = vocabulary size).
TrainingReturnsLogits ==
    (pc = "returned" /\ ~call.decoding) =>
        /\ Last(result[1].size) = fields[transformer.trg].vocab_len
        /\ Last(result[1].hist) = <<"out", transformer.decoder.out.id>>

\* C5 amended: without decoding, forward returns the decoder's output as it
\* is, of size B x T x d_model and not projected; with return_probs it
\* returns that together with the softmax of its projection onto the target
\* vocabulary, of size B x T x len(trg.vocab).
TrainingReturnsHidden ==
    (pc = "returned" /\ ~call.decoding) =>
        /\ result[1] = out
        /\ out.size = <<CallBatch, CallTt, DModel>>
        /\ Last(out.hist)[1] \in {"embedding", "DecoderLayer"}
        /\ Len(result) = IF call.return_probs THEN 2 ELSE 1
        /\ call.return_probs =>
              /\ result[2].size =
                    <<CallBatch, CallTt, fields[transformer.trg].vocab_len>>
              /\ result[2].hist =
                    out.hist \o <<<<"out", transformer.decoder.out.id>>, <<"softmax">>>>

\* C5 witness: a teacher-forced call with return_probs returned, d_model
\* differing from the vocabulary size
TrainingReturnsWitness ==
    /\ pc = "returned" /\ ~call.decoding /\ call.return_probs
    /\ NLayers > 0
    /\ DModel # fields[transformer.trg].vocab_len
    /\ Last(result[1].size) = DModel
    /\ Last(result[2].size) = fields[transformer.trg].vocab_len

\* C6: after construction src and trg each carry one projection d_model ->
\* vocabulary size, the encoder's is src's and the decoder's is trg's, they
\* are one layer exactly when src and trg are one field, and the decoder
\* embeds with the matrix it projects with.
TiedProjections ==
    Constructed =>
        LET src == transformer.src
            trg == transformer.trg
        IN /\ fields[src].out.id > 0 /\ fields[trg].out.id > 0
           /\ fields[src].out.in = DModel
           /\ fields[src].out.out = fields[src].vocab_len
           /\ fields[trg].out.in = DModel
           /\ fields[trg].out.out = fields[trg].vocab_len
           /\ transformer.encoder.out = fields[src].out
           /\ transformer.decoder.out = fields[trg].out
           /\ (transformer.encoder.out.id = transformer.decoder.out.id) <=> (src = trg)
           /\ \A f \in Fields \ {src, trg} : fields[f].out = NoLinear
           /\ (pc = "returned" /\ call.return_probs) =>
                 /\ out.hist[1] = <<"embedding", transformer.decoder.out.id>>
                 /\ result[Len(result)].hist[Len(out.hist) + 1]
                       = <<"out", transformer.decoder.out.id>>

\* C6 witness: a model over two different fields, whose projections differ
TiedProjectionsWitness ==
    /\ pc = "constructed"
    /\ transformer.src # transformer.trg
    /\ transformer.encoder.out.id # transformer.decoder.out.id
    /\ transformer.encoder.out.out # transformer.decoder.out.out

\* C9: the encoder is the first sub-call and the only encoder call; the
\* decoder pass runs exactly when decoding is False or return_probs is True,
\* so no return reads an unassigned out; a search routine runs exactly when
\* decoding is True.
ForwardOrder ==
    /\ \A k \in DOMAIN trace : (trace[k] = "encoder") <=> (k = 1)
    /\ pc # "unbound_error"
    /\ Count("decoder") > 0 => (~call.decoding \/ call.return_probs)
    /\ Searches > 0 => call.decoding
    /\ pc = "returned" =>
          /\ Count("encoder") = 1
          /\ Count("decoder") = IF ~call.decoding \/ call.return_probs THEN 1 ELSE 0
          /\ Searches = IF call.decoding THEN 1 ELSE 0
          /\ ReturnReadsOut(call) => out.ok

\* C9 witness: a decoding call with return_probs ran the encoder, the
\* decoder pass and a search routine, in this order, and returned all three
ForwardOrderWitness ==
    /\ pc = "returned" /\ call.decoding /\ call.return_probs
    /\ trace = <<"encoder", "decoder", output.routine>>
    /\ Len(result) = 3 /\ result[2] = out /\ out.ok

====
